---------------------------- MODULE Spec2Model ----------------------------
(***************************************************************************)
(* A model of scripts/add_rule.py (fortitude): the generator that adds the *)
(* boilerplate of a new rule to the source tree.                           *)
(*                                                                         *)
(* Text is modelled as a sequence of atoms.  An atom is one character the  *)
(* code looks at (newline, blank, tab) or a fixed chunk of text the code   *)
(* never looks into (a keyword, a word of a name, a code).  File contents, *)
(* lines and paths are all sequences of atoms, so splitting, stripping,    *)
(* joining and sorting are computed as Python computes them.               *)
(***************************************************************************)
EXTENDS Naturals, Sequences, FiniteSets

VARIABLES
    fs,        \* the tree: path -> content, for the files that exist
    dirs,      \* the fixture directories that exist
    id,        \* the arguments of the running invocation of main
    pc,        \* the statement of main the invocation is at
    failedAt,  \* the step whose exception ended the invocation, or "none"
    run,       \* number of the invocation
    log,       \* the file operations of the running invocation, in order
    start,     \* the tree when the running invocation began
    prevId,    \* the arguments of the previous invocation
    prevOk,    \* whether the previous invocation ran to its end
    indexIn,   \* the content given to the module-index patch on its own
    indexOut   \* the content it returned

vars == <<fs, dirs, id, pc, failedAt, run, log, start, prevId, prevOk,
          indexIn, indexOut>>

---------------------------------------------------------------------------
(* Text.                                                                   *)

NL == "\n"
SP == " "
TAB == "\t"

\* The whitespace str.strip() removes, among the atoms of the model.
Whitespace == {SP, TAB, NL}

\* The atoms that occur in sorted or compared lines, in code-point order of
\* their text.  No atom is a prefix of another, so comparing two lines atom
\* by atom is comparing their text character by character.
Alphabet ==
    << "\t", "\n", " ",
       "\") => (RuleGroup::Preview, Ast, Optional, rules::",
       "\"))]",
       "#[cfg(test)]",
       "#[test_case(Rule::",
       "(", "),", ", \"", ", Path::new(\"", "-", ".f90", ".py", "//",
       "100", "200", "300", "400",
       "::*", "::rules::", ";",
       "A", "B", "C", "D", "E", "Io", "Rule", "Safety", "Style", "_",
       "a", "b", "c", "d",
       "fn rules(rule_code: Rule, path: &Path) -> Result<()> {",
       "io", "mod", "pub(crate) use", "rule", "safety", "style",
       "use super::*;", "}" >>

Ord(a) == CHOOSE i \in 1..Len(Alphabet) : Alphabet[i] = a

\* s < t as Python compares two str values.
RECURSIVE StrLess(_, _)
StrLess(s, t) ==
    IF t = <<>> THEN FALSE
    ELSE IF s = <<>> THEN TRUE
    ELSE IF Head(s) = Head(t) THEN StrLess(Tail(s), Tail(t))
    ELSE Ord(Head(s)) < Ord(Head(t))

StrLeq(s, t) == s = t \/ StrLess(s, t)

RECURSIVE lstrip(_)
lstrip(s) ==
    IF s # <<>> /\ Head(s) \in Whitespace THEN lstrip(Tail(s)) ELSE s

RECURSIVE rstrip(_)
rstrip(s) ==
    IF s # <<>> /\ s[Len(s)] \in Whitespace
    THEN rstrip(SubSeq(s, 1, Len(s) - 1)) ELSE s

\* str.strip()
strip(s) == rstrip(lstrip(s))

\* "".join(parts)
RECURSIVE Concat(_)
Concat(parts) ==
    IF parts = <<>> THEN <<>> ELSE Head(parts) \o Concat(Tail(parts))

\* sep.join(parts)
RECURSIVE Join(_, _)
Join(sep, parts) ==
    IF parts = <<>> THEN <<>>
    ELSE IF Len(parts) = 1 THEN parts[1]
    ELSE parts[1] \o sep \o Join(sep, Tail(parts))

\* The k-th smallest element of a set of numbers.
Nth(S, k) == CHOOSE x \in S : Cardinality({y \in S : y < x}) = k - 1

\* The positions at which a line of s ends: each newline, and the end of s.
LineEnds(s) == {i \in 1..Len(s) : s[i] = NL \/ i = Len(s)}

\* Iterating a text file: the lines with their terminators.
readlines(s) ==
    LET E == LineEnds(s)
    IN  [k \in 1..Cardinality(E) |->
            SubSeq(s, IF k = 1 THEN 1 ELSE Nth(E, k - 1) + 1, Nth(E, k))]

\* str.splitlines(): the lines without their terminators; a final newline
\* opens no further line.
splitlines(s) ==
    LET ls == readlines(s)
    IN  [k \in 1..Len(ls) |->
            IF ls[k][Len(ls[k])] = NL THEN SubSeq(ls[k], 1, Len(ls[k]) - 1)
            ELSE ls[k]]

\* The number of newlines that stand in a row just before position i.
NewlinesBefore(s, i) ==
    LET others == {j \in 1..(i - 1) : s[j] # NL}
    IN  IF others = {} THEN i - 1
        ELSE i - 1 - (CHOOSE j \in others : \A o \in others : o <= j)

\* Where str.split("\n\n") cuts: scanning from the left, at each pair of
\* newlines that does not overlap the pair cut before it.
CutStarts(s) ==
    {i \in 1..(Len(s) - 1) :
        /\ s[i] = NL
        /\ s[i + 1] = NL
        /\ NewlinesBefore(s, i) % 2 = 0}

\* str.split("\n\n")
split_blank(s) ==
    LET C == CutStarts(s)
        n == Cardinality(C)
    IN  [k \in 1..(n + 1) |->
            SubSeq(s, IF k = 1 THEN 1 ELSE Nth(C, k - 1) + 2,
                      IF k = n + 1 THEN Len(s) ELSE Nth(C, k) - 1)]

\* The lines left in the order they came.
sort_skipped(lines) == lines

\* list.sort() on lines: a stable sort by < on str (insertion sort).
RECURSIVE InsertSorted(_, _)
InsertSorted(sorted, x) ==
    IF sorted = <<>> THEN <<x>>
    ELSE IF StrLess(x, Head(sorted)) THEN <<x>> \o sorted
    ELSE <<Head(sorted)>> \o InsertSorted(Tail(sorted), x)

RECURSIVE SortFrom(_, _, _)
SortFrom(lines, i, acc) ==
    IF i > Len(lines) THEN acc
    ELSE SortFrom(lines, i + 1, InsertSorted(acc, lines[i]))

sort(lines) == SortFrom(lines, 1, <<>>)

---------------------------------------------------------------------------
(* _utils: the helpers main imports.                                       *)

\* get_indent(line): the whitespace a line begins with.
RECURSIVE get_indent(_)
get_indent(line) ==
    IF line # <<>> /\ Head(line) \in {SP, TAB}
    THEN <<Head(line)>> \o get_indent(Tail(line)) ELSE <<>>

Lower(w) ==
    CASE w = "Rule" -> "rule" [] w = "A" -> "a" [] w = "B" -> "b"
      [] w = "C" -> "c" [] w = "D" -> "d" [] OTHER -> w

Title(w) ==
    CASE w = "style" -> "Style" [] w = "io" -> "Io" [] w = "safety" -> "Safety"
      [] OTHER -> w

\* snake_case(name): the words of a PascalCase name, lowered, joined by "_".
RECURSIVE snake_case(_)
snake_case(name) ==
    IF name = <<>> THEN <<>>
    ELSE IF Len(name) = 1 THEN <<Lower(name[1])>>
    ELSE <<Lower(name[1]), "_">> \o snake_case(Tail(name))

\* dir_name(category): "-" becomes "_".
dir_name(category) ==
    [i \in 1..Len(category) |-> IF category[i] = "-" THEN "_" ELSE category[i]]

\* pascal_case(category): the words between "-", each capitalised.
RECURSIVE pascal_case(_)
pascal_case(category) ==
    IF category = <<>> THEN <<>>
    ELSE IF Head(category) = "-" THEN pascal_case(Tail(category))
    ELSE <<Title(Head(category))>> \o pascal_case(Tail(category))


---------------------------------------------------------------------------
(* The arguments of main and the text it derives from them.                *)

\* name: the words of a PascalCase rule name; category: the atoms of a
\* category name.
Names == {<<"Rule", "B">>, <<"Rule", "D">>}
Prefixes == {"E"}
Codes == {"200", "400"}
Categories == {<<"style">>, <<"io", "-", "safety">>}

Identities ==
    [name : Names, prefix : Prefixes, code : Codes, category : Categories]

NoIdentity == [name |-> <<>>, prefix |-> "", code |-> "", category |-> <<>>]

\* filestem = f"{prefix}{code}"
filestem(i) == <<i.prefix, i.code>>

FixtureExt == ".f90"

ROOT_fixtures == "fortitude/resources/test/fixtures"
ROOT_rules == "fortitude/src/rules"

\* ROOT_DIR / "fortitude/resources/test/fixtures" / dir_name(category)
fixture_dir(i) == <<ROOT_fixtures>> \o dir_name(i.category)

\* ... / f"{filestem}.f90"
fixture_path(i) == fixture_dir(i) \o filestem(i) \o <<FixtureExt>>

\* plugin_module = ROOT_DIR / "fortitude/src/rules" / dir_name(category)
plugin_module(i) == <<ROOT_rules>> \o dir_name(i.category)

\* mod_rs = plugin_module / "mod.rs"
mod_rs(i) == plugin_module(i) \o <<"mod.rs">>

\* rules_dir = plugin_module
rules_dir(i) == plugin_module(i)

\* rules_mod = rules_dir / "mod.rs"
rules_mod(i) == rules_dir(i) \o <<"mod.rs">>

\* rules_dir / f"{rule_name_snake}.rs"
stub_path(i) == rules_dir(i) \o snake_case(i.name) \o <<".rs">>

\* ROOT_DIR / "fortitude/src/rules/mod.rs"
table_path == <<ROOT_rules, "mod.rs">>

---------------------------------------------------------------------------
(* Step 2: the #[test_case] line.                                          *)

AnchorText == <<"fn rules(rule_code: Rule, path: &Path) -> Result<()> {">>

\* f'{indent}#[test_case(Rule::{name}, Path::new("{filestem}.py"))]'
test_case_line(indent, i) ==
    indent \o <<"#[test_case(Rule::">> \o i.name \o <<", Path::new(\"">>
           \o filestem(i) \o <<".py", "\"))]">>

\* One pass of the loop over content.splitlines(): st holds what was written
\* to the file so far, the pending lines, and has_added_testcase.
TestCaseIter(st, line, i) ==
    LET atAnchor == ~st.added /\ strip(line) = AnchorText
        pending == IF atAnchor
                   THEN Append(st.lines, test_case_line(get_indent(line), i))
                   ELSE st.lines
        written == IF atAnchor
                   THEN st.out \o Join(<<NL>>, pending) \o <<NL>>
                   ELSE st.out
        added == st.added \/ atAnchor
        kept == IF atAnchor THEN <<>> ELSE st.lines
    IN  IF added
        THEN [out |-> written \o line \o <<NL>>, lines |-> kept,
              added |-> TRUE]
        ELSE IF strip(line) = <<>>
        THEN [out |-> written \o Join(<<NL>>, kept) \o <<NL, NL>>,
              lines |-> <<>>, added |-> FALSE]
        ELSE [out |-> written, lines |-> Append(kept, line),
              added |-> FALSE]

RECURSIVE TestCaseLoop(_, _, _, _)
TestCaseLoop(ls, k, st, i) ==
    IF k > Len(ls) THEN st
    ELSE TestCaseLoop(ls, k + 1, TestCaseIter(st, ls[k], i), i)

\* What the file holds when the `with mod_rs.open("w")` block ends: the
\* pending lines are not written after the loop.
TestCasePatch(content, i) ==
    TestCaseLoop(splitlines(content), 1,
                 [out |-> <<>>, lines |-> <<>>, added |-> FALSE], i).out

---------------------------------------------------------------------------
(* Step 3: the exports.                                                    *)

\* new_pub_use = f"pub(crate) use {rule_name_snake}::*"
new_pub_use(i) == <<"pub(crate) use", SP>> \o snake_case(i.name) \o <<"::*">>

\* new_mod = f"mod {rule_name_snake};"
new_mod(i) == <<"mod", SP>> \o snake_case(i.name) \o <<";">>

\* The declaration put before the second part instead of after it.
ExportsTwoPartsDeclFirst(parts, i) ==
    parts[1] \o <<NL, "pub(crate) use", SP>> \o snake_case(i.name)
             \o <<"::*", ";", NL, NL, "mod", SP>> \o snake_case(i.name)
             \o <<";", NL>> \o parts[2]

\* The two-part branch: new_contents.
ExportsTwoParts(parts, i) ==
    parts[1] \o <<NL>> \o new_pub_use(i) \o <<";">> \o <<NL, NL>>
             \o parts[2] \o new_mod(i) \o <<NL>>

\* The other branch: what rules_mod.open("a") leaves in the file.
ExportsAppend(contents, i) ==
    contents \o new_pub_use(i) \o <<";">> \o <<NL, NL>> \o new_mod(i)
             \o <<NL>>

ExportsPatch(contents, i) ==
    LET parts == split_blank(contents)
    IN  IF Len(parts) = 2 THEN ExportsTwoParts(parts, i)
        ELSE ExportsAppend(contents, i)

---------------------------------------------------------------------------
(* Step 4: the rule's file.                                                *)

StubText(i) ==
    <<"use crate::ast::FortitudeNode; ... pub(crate) struct ">> \o i.name
    \o <<"; impl Violation for ">> \o i.name
    \o <<" { ... } impl AstRule for ">> \o i.name \o <<" { ... }", NL>>

---------------------------------------------------------------------------
(* Step 5: the table of rules.                                             *)

\* f"// {category}"
category_marker(i) == <<"//", SP>> \o i.category

\* linter_name = category.split(" ")[0].replace("-", "_")
RECURSIVE FirstWord(_)
FirstWord(s) ==
    IF s = <<>> \/ Head(s) = SP THEN <<>>
    ELSE <<Head(s)>> \o FirstWord(Tail(s))

linter_name(i) ==
    LET w == FirstWord(i.category)
    IN  [k \in 1..Len(w) |-> IF w[k] = "-" THEN "_" ELSE w[k]]

IndentWidth == 8

\* " " * 8 + f'({variant}, "{code}") => (RuleGroup::Preview, Ast, Optional, {rule}),\n'
table_row(i) ==
    [k \in 1..IndentWidth |-> SP]
    \o <<"(">> \o pascal_case(i.category) \o <<", \"", i.code>>
    \o <<"\") => (RuleGroup::Preview, Ast, Optional, rules::">>
    \o linter_name(i) \o <<"::rules::">> \o i.name \o <<"),", NL>>

\* The index of the first line from k on whose strip() is `what`, or 0:
\* next(fp) raises StopIteration when the file ends first.
RECURSIVE NextLine(_, _, _)
NextLine(ls, k, what) ==
    IF k > Len(ls) THEN 0
    ELSE IF strip(ls[k]) = what THEN k
    ELSE NextLine(ls, k + 1, what)

\* The row written at the end of the file when no marker was found.
AppendAtEndOfFile(content, i) ==
    [ok |-> TRUE,
     text |-> content \o table_row(i)]

\* next(fp) raising inside the `with ... open("r")` block: nothing is written.
StopIteration(content, i) == [ok |-> FALSE, text |-> content]

\* text, as written back by the second `with` block.
TablePatch(content, i) ==
    LET ls == readlines(content)
        m == NextLine(ls, 1, category_marker(i))
        b == IF m = 0 THEN 0 ELSE NextLine(ls, m + 1, <<>>)
    IN  IF m = 0 \/ b = 0 THEN StopIteration(content, i)
        ELSE [ok |-> TRUE,
              text |-> Concat(SubSeq(ls, 1, m))
                       \o Concat(sort(Append(SubSeq(ls, m + 1, b - 1),
                                             table_row(i))))
                       \o <<NL>>
                       \o Concat(SubSeq(ls, b + 1, Len(ls)))]

---------------------------------------------------------------------------
(* The tree.                                                               *)

\* f with the file at path p holding content c.
Put(f, p, c) == [q \in (DOMAIN f) \cup {p} |-> IF q = p THEN c ELSE f[q]]

Exists(f, p) == p \in DOMAIN f

Event(op, p) == [op |-> op, path |-> p]

\* The sequences over S of length at most n.
SeqUpTo(S, n) == UNION {[1..k -> S] : k \in 0..n}

MaxRuns == 2
MaxCases == 2
MaxRows == 2
MaxMods == 2

\* Lines a category's mod.rs is made of.
Indent4 == <<SP, SP, SP, SP>>

ExistingCase(word, code) ==
    Indent4 \o <<"#[test_case(Rule::", "Rule", word, ", Path::new(\"", "E",
                 code, ".f90", "\"))]", NL>>

ExistingCases == {ExistingCase("A", "100"), ExistingCase("C", "300")}

ExportLine(w) == <<"pub(crate) use", SP, "rule", "_", w, "::*", ";", NL>>

ModLine(w) == <<"mod", SP, "rule", "_", w, ";", NL>>

ModRsHeads ==
    { <<>>,
      ModLine("a") \o ModLine("c"),
      ExportLine("a") \o <<NL>> \o ModLine("a") }

ModRsSeparators == { <<>>, <<NL>>, <<NL, NL>>, <<SP, SP, NL>> }

ModRsAnchors ==
    { <<>>, Indent4 \o AnchorText \o <<NL>>, <<TAB>> \o AnchorText \o <<NL>> }

ModRsTails ==
    { <<>>,
      Indent4 \o <<"}", NL>>,
      <<"}", NL, NL>> \o AnchorText \o <<NL, "}">> }

\* The contents a category's mod.rs starts with.
ModRsFiles ==
    { h \o s \o <<"#[cfg(test)]", NL>> \o Concat(c) \o a \o t :
        h \in ModRsHeads, s \in ModRsSeparators,
        c \in SeqUpTo(ExistingCases, MaxCases),
        a \in ModRsAnchors, t \in ModRsTails }

\* Rows the table of rules is made of.
ExistingRow(indent, code, word) ==
    indent \o <<"(", "Style", ", \"", code,
                "\") => (RuleGroup::Preview, Ast, Optional, rules::",
                "style", "::rules::", "Rule", word, "),", NL>>

Indent8 == Indent4 \o Indent4

ExistingRows ==
    { ExistingRow(Indent8, "100", "A"), ExistingRow(Indent8, "300", "C"),
      ExistingRow(<<TAB>>, "200", "A") }

TableHeads == { <<>>, <<"use super::*;", NL>> }

StyleSections ==
    { <<>> } \cup
    { Indent8 \o <<"//", SP, "style", NL>> \o Concat(r) \o t :
        r \in SeqUpTo(ExistingRows, MaxRows),
        t \in { <<NL>>, <<SP, SP, NL>>, <<>> } }

IoRow ==
    Indent8 \o <<"(", "Io", "Safety", ", \"", "100",
                 "\") => (RuleGroup::Preview, Ast, Optional, rules::",
                 "io", "_", "safety", "::rules::", "Rule", "A", "),", NL>>

IoSections ==
    { <<>>,
      Indent8 \o <<"//", SP, "io", "-", "safety", SP, NL>> \o IoRow
              \o <<NL>> }

TableTails == { <<>>, <<"}", NL>> }

\* The contents the table of rules starts with.
TableFiles ==
    { h \o s \o o \o t :
        h \in TableHeads, s \in StyleSections, o \in IoSections,
        t \in TableTails }

\* A rule's file written by hand.
HandWritten == <<"// a rule written by hand", NL>>

StyleId == [name |-> <<"Rule", "B">>, prefix |-> "E", code |-> "200",
            category |-> <<"style">>]

\* The fixture directories of all categories.
AllDirs == {fixture_dir([StyleId EXCEPT !.category = c]) : c \in Categories}

\* A tree with a mod.rs for each category in cats, a table, and the files in
\* extra.
Tree(cats, modrs, table, extra) ==
    LET paths == {mod_rs([StyleId EXCEPT !.category = c]) : c \in cats}
                 \cup (IF table = <<"absent">> THEN {} ELSE {table_path})
                 \cup DOMAIN extra
    IN  [p \in paths |->
            IF p = table_path /\ table # <<"absent">> THEN table
            ELSE IF p \in DOMAIN extra THEN extra[p]
            ELSE modrs]

NoFiles == [p \in {} |-> <<>>]

---------------------------------------------------------------------------
(* main, one action per step.                                              *)

\* The tree put back as it was when the invocation began.
RaiseAndRollBack(step) ==
    /\ pc' = "failed"
    /\ failedAt' = step
    /\ fs' = start

\* An exception leaves main: the invocation ends at this step, and the tree
\* stays as the steps before it left it.
Raise(step) ==
    /\ pc' = "failed"
    /\ failedAt' = step
    /\ fs' = fs

\* The exports step working on the content step 2 read, without reading.
ExportsEventsNoRead(p) == <<[op |-> "write", path |-> p]>>

\* What the exports step does to the file: read_text(), and then
\* write_text() or the writes of open("a").
ExportsEvents(p) == <<Event("read", p), Event("write", p)>>

\* Lines 28-35: the fixture is opened for appending and closed.
FixtureStep ==
    /\ pc = "fixture"
    /\ IF fixture_dir(id) \in dirs
       THEN /\ fs' = IF Exists(fs, fixture_path(id)) THEN fs
                     ELSE Put(fs, fixture_path(id), <<>>)
            /\ log' = Append(log, Event("open_append", fixture_path(id)))
            /\ pc' = "testcase"
            /\ UNCHANGED failedAt
       ELSE /\ Raise("fixture")
            /\ UNCHANGED log
    /\ UNCHANGED <<dirs, id, run, start, prevId, prevOk, indexIn, indexOut>>

\* Lines 37-68: mod.rs is read, truncated and written again.
TestCaseStep ==
    /\ pc = "testcase"
    /\ IF Exists(fs, mod_rs(id))
       THEN /\ fs' = Put(fs, mod_rs(id), TestCasePatch(fs[mod_rs(id)], id))
            /\ log' = log \o <<Event("read", mod_rs(id)),
                               Event("write", mod_rs(id))>>
            /\ pc' = "exports"
            /\ UNCHANGED failedAt
       ELSE /\ Raise("testcase")
            /\ UNCHANGED log
    /\ UNCHANGED <<dirs, id, run, start, prevId, prevOk, indexIn, indexOut>>

\* Lines 70-93: the same mod.rs is read and written a second time.
ExportsStep ==
    /\ pc = "exports"
    /\ IF Exists(fs, rules_mod(id))
       THEN /\ fs' = Put(fs, rules_mod(id),
                         ExportsPatch(fs[rules_mod(id)], id))
            /\ log' = log \o ExportsEvents(rules_mod(id))
            /\ pc' = "stub"
            /\ UNCHANGED failedAt
       ELSE /\ Raise("exports")
            /\ UNCHANGED log
    /\ UNCHANGED <<dirs, id, run, start, prevId, prevOk, indexIn, indexOut>>

\* Lines 95-143: the rule's file is opened with "w" and written.
StubStep ==
    /\ pc = "stub"
    /\ fs' = Put(fs, stub_path(id), StubText(id))
    /\ log' = Append(log, Event("write", stub_path(id)))
    /\ pc' = "dispatch"
    /\ UNCHANGED <<dirs, id, failedAt, run, start, prevId, prevOk, indexIn,
                   indexOut>>

\* Lines 145-166: the table is read, and written if both loops ended.
TableStep ==
    /\ pc = "dispatch"
    /\ IF Exists(fs, table_path)
       THEN LET res == TablePatch(fs[table_path], id)
            IN  IF res.ok
                THEN /\ fs' = Put(fs, table_path, res.text)
                     /\ log' = log \o <<Event("read", table_path),
                                        Event("write", table_path)>>
                     /\ pc' = "rustfmt"
                     /\ UNCHANGED failedAt
                ELSE /\ Raise("dispatch")
                     /\ log' = Append(log, Event("read", table_path))
       ELSE /\ Raise("dispatch")
            /\ UNCHANGED log
    /\ UNCHANGED <<dirs, id, run, start, prevId, prevOk, indexIn, indexOut>>

\* Lines 168-172: rustfmt is run on rules_mod, and its exit status is not
\* looked at; subprocess.run raises when there is no rustfmt to run.  What
\* the formatter does to the file is not part of this program: the model
\* records the call and leaves the file as main wrote it.
RustfmtStep ==
    /\ pc = "rustfmt"
    /\ \/ /\ log' = Append(log, Event("rustfmt", rules_mod(id)))
          /\ pc' = "done"
          /\ UNCHANGED <<fs, failedAt>>
       \/ /\ Raise("rustfmt")
          /\ UNCHANGED log
    /\ UNCHANGED <<dirs, id, run, start, prevId, prevOk, indexIn, indexOut>>

\* The script is run again, on the tree the last invocation left.
Restart ==
    /\ pc \in {"done", "failed"}
    /\ run < MaxRuns
    /\ \E i \in Identities : id' = i
    /\ pc' = "fixture"
    /\ failedAt' = "none"
    /\ run' = run + 1
    /\ log' = <<>>
    /\ start' = fs
    /\ prevId' = id
    /\ prevOk' = (pc = "done")
    /\ UNCHANGED <<fs, dirs, indexIn, indexOut>>

\* The exports patch of lines 74-93 on its own, applied to a content.
ApplyExportsPatch ==
    /\ pc = "index"
    /\ indexOut' = ExportsPatch(indexIn, id)
    /\ pc' = "indexed"
    /\ UNCHANGED <<fs, dirs, id, failedAt, run, log, start, prevId, prevOk,
                   indexIn>>

\* The state as main is entered on tree t with arguments i.
Enter(t, d, i) ==
    /\ fs = t
    /\ dirs = d
    /\ id = i
    /\ pc = "fixture"
    /\ failedAt = "none"
    /\ run = 1
    /\ log = <<>>
    /\ start = t
    /\ prevId = NoIdentity
    /\ prevOk = FALSE
    /\ indexIn = <<>>
    /\ indexOut = <<>>

TypicalModRs ==
    ModLine("a") \o ModLine("c") \o <<NL, "#[cfg(test)]", NL>>
    \o ExistingCase("A", "100") \o Indent4 \o AnchorText \o <<NL>>
    \o Indent4 \o <<"}", NL>>

TypicalTable ==
    <<"use super::*;", NL>> \o Indent8 \o <<"//", SP, "style", NL>>
    \o ExistingRow(Indent8, "100", "A") \o ExistingRow(Indent8, "300", "C")
    \o <<NL>> \o Indent8 \o <<"//", SP, "io", "-", "safety", NL>> \o IoRow
    \o <<NL, "}", NL>>

SomeModRs ==
    { TypicalModRs,
      ModLine("a") \o <<NL, "#[cfg(test)]", NL>> \o ExistingCase("C", "300"),
      ExportLine("a") \o <<NL>> \o ModLine("a") \o <<"#[cfg(test)]", NL>>
          \o Indent4 \o AnchorText \o <<NL>> \o Indent4 \o <<"}", NL>>,
      ModLine("a") \o <<NL, NL, "#[cfg(test)]", NL>>
          \o ExistingCase("C", "300") \o Indent4 \o AnchorText \o <<NL>> }

SomeTables ==
    { TypicalTable,
      <<"use super::*;", NL>> \o Indent8 \o <<"//", SP, "io", "-", "safety",
          NL>> \o IoRow \o <<NL>>,
      <<"absent">> }

SomeExtras ==
    { NoFiles, [p \in {stub_path(StyleId)} |-> HandWritten] }

\* Invocations one after another, on a few trees.
Init ==
    \E m \in SomeModRs, t \in SomeTables, x \in SomeExtras, i \in Identities,
       dc \in { <<AllDirs, Categories>>, <<AllDirs, {<<"style">>}>>,
                <<{fixture_dir(StyleId)}, {<<"style">>}>> } :
        Enter(Tree(dc[2], m, t, x), dc[1], i)

\* One invocation, over the contents of a category's mod.rs.
InitModRs ==
    \E m \in ModRsFiles, i \in Identities :
        Enter(Tree(Categories, m, TypicalTable, NoFiles), AllDirs, i)

\* One invocation, over the contents of the table of rules.
InitTable ==
    \E t \in TableFiles, i \in Identities :
        Enter(Tree(Categories, TypicalModRs, t, NoFiles), AllDirs, i)

\* The contents given to the exports patch on its own: a block of export
\* lines and a block of declarations, in either order.
IndexFiles ==
    { b[1] \o s \o b[2] \o t :
        b \in UNION { {<<Concat(e), Concat(m)>>, <<Concat(m), Concat(e)>>} :
                e \in SeqUpTo({ExportLine("a"), ExportLine("c")}, MaxMods),
                m \in SeqUpTo({ModLine("a"), ModLine("c")}, MaxMods) },
        s \in { <<>>, <<NL>>, <<NL, NL>> },
        t \in { <<>>, <<NL, "#[cfg(test)]", NL>>, <<"}">> } }

InitIndex ==
    \E c \in IndexFiles, i \in {[StyleId EXCEPT !.name = n] : n \in Names} :
        /\ fs = NoFiles
        /\ dirs = AllDirs
        /\ id = i
        /\ pc = "index"
        /\ failedAt = "none"
        /\ run = 1
        /\ log = <<>>
        /\ start = NoFiles
        /\ prevId = NoIdentity
        /\ prevOk = FALSE
        /\ indexIn = c
        /\ indexOut = <<>>

RunStep ==
    \/ FixtureStep
    \/ TestCaseStep
    \/ ExportsStep
    \/ StubStep
    \/ TableStep
    \/ RustfmtStep

Next == RunStep \/ Restart

Spec == Init /\ [][Next]_vars

SpecModRs == InitModRs /\ [][RunStep]_vars

SpecTable == InitTable /\ [][RunStep]_vars

SpecIndex == InitIndex /\ [][ApplyExportsPatch]_vars

---------------------------------------------------------------------------
(* What the properties below speak of.                                     *)

\* The content of the file at p in tree f; nothing when there is no file.
Content(f, p) == IF p \in DOMAIN f THEN f[p] ELSE <<>>

\* The index of the first line from k on that is `what` once stripped, or 0.
FirstLine(ls, k, what) ==
    LET S == {j \in k..Len(ls) : strip(ls[j]) = what}
    IN  IF S = {} THEN 0 ELSE CHOOSE j \in S : \A o \in S : j <= o

HasLine(content, what) == FirstLine(readlines(content), 1, what) # 0

Count(seq, x) == Cardinality({k \in 1..Len(seq) : seq[k] = x})

Range(seq) == {seq[k] : k \in 1..Len(seq)}

Sorted(ls) == \A k \in 1..(Len(ls) - 1) : StrLeq(ls[k], ls[k + 1])

\* seq without its k-th element.
RemoveAt(seq, k) == SubSeq(seq, 1, k - 1) \o SubSeq(seq, k + 1, Len(seq))

\* The lines of seq from the k-th on that begin with the atom `first`.
RECURSIVE Select(_, _, _)
Select(seq, k, first) ==
    IF k > Len(seq) THEN <<>>
    ELSE IF seq[k] # <<>> /\ Head(seq[k]) = first
         THEN <<seq[k]>> \o Select(seq, k + 1, first)
    ELSE Select(seq, k + 1, first)

\* The lines of a content that begin with the atom `first`, stripped.
LinesWith(content, first) ==
    LET ls == splitlines(content)
    IN  Select([k \in 1..Len(ls) |-> strip(ls[k])], 1, first)

Reads(p) == Cardinality({k \in 1..Len(log) : log[k] = Event("read", p)})

Writes(p) == Cardinality({k \in 1..Len(log) : log[k] = Event("write", p)})

Opens(p) ==
    Cardinality({k \in 1..Len(log) : log[k] = Event("open_append", p)})

Touched == {log[k].path : k \in 1..Len(log)}

\* The table step of the running invocation is over.
PastTable == pc \in {"rustfmt", "done"} \/ (pc = "failed" /\ failedAt = "dispatch")

OldModRs == Content(start, mod_rs(id))
NewModRs == Content(fs, mod_rs(id))
OldTable == Content(start, table_path)
NewTable == Content(fs, table_path)

\* The tree the steps before the table step leave, from the tree at entry.
TreeBeforeTable ==
    LET f1 == IF Exists(start, fixture_path(id)) THEN start
              ELSE Put(start, fixture_path(id), <<>>)
        f2 == Put(f1, mod_rs(id),
                  ExportsPatch(TestCasePatch(OldModRs, id), id))
    IN  Put(f2, stub_path(id), StubText(id))

TreeBeforeTestCase ==
    IF Exists(start, fixture_path(id)) THEN start
    ELSE Put(start, fixture_path(id), <<>>)

---------------------------------------------------------------------------
(* C1.  Stated as claimed: a second invocation with the arguments of a     *)
(* first one that ran to its end stops at the step that creates the rule's *)
(* file, which is left as it was, and neither mod.rs nor the table of      *)
(* rules gains a second entry.  The code opens the rule's file with "w"    *)
(* after it has patched mod.rs: the invocation goes on.                    *)
C1_SecondRunStopsAtStub ==
    (run >= 2 /\ prevOk /\ id = prevId
        /\ pc \in {"dispatch", "rustfmt", "done", "failed"})
    => /\ pc = "failed"
       /\ failedAt = "stub"
       /\ Content(fs, stub_path(id)) = Content(start, stub_path(id))
       /\ NewModRs = OldModRs
       /\ NewTable = OldTable

(* C2.  Stated as claimed: when mod.rs holds no anchor line, the           *)
(* test-case step fails and mod.rs is left as it was.  The code rewrites   *)
(* the file and goes on.                                                   *)
C2_NoAnchorFailsUntouched ==
    (pc = "exports" /\ ~HasLine(OldModRs, AnchorText))
    => /\ failedAt = "testcase"
       /\ NewModRs = OldModRs

(* C3.  When the table of rules holds no line `// <category>`, the table   *)
(* step fails, the invocation ends there, and the table is left exactly as *)
(* it was: no row is appended.                                             *)
C3_NoMarkerFailsUntouched ==
    (PastTable /\ ~HasLine(OldTable, category_marker(id)))
    => /\ pc = "failed"
       /\ failedAt = "dispatch"
       /\ NewTable = OldTable

C3_Witness ==
    /\ pc = "failed"
    /\ failedAt = "dispatch"
    /\ ~HasLine(OldTable, category_marker(id))
    /\ OldTable # <<>>
    /\ NewTable = OldTable

(* C4.  When the table of rules holds the marker line followed by rows and *)
(* a blank line, the table step succeeds and the new table is the old one  *)
(* with the block between marker and blank line replaced by the old rows   *)
(* plus the new row, in the order of < on their full text; the lines up to *)
(* the marker and the lines after the blank line are the old ones.         *)
C4_BlockSortedRestUntouched ==
    LET old == readlines(OldTable)
        new == readlines(NewTable)
        m == FirstLine(old, 1, category_marker(id))
        b == IF m = 0 THEN 0 ELSE FirstLine(old, m + 1, <<>>)
        oldRows == SubSeq(old, m + 1, b - 1)
        newRows == SubSeq(new, m + 1, b)
    IN  (PastTable /\ m # 0 /\ b # 0)
        => /\ pc # "failed"
           /\ Len(new) = Len(old) + 1
           /\ SubSeq(new, 1, m) = SubSeq(old, 1, m)
           /\ SubSeq(new, b + 2, Len(new)) = SubSeq(old, b + 1, Len(old))
           /\ strip(new[b + 1]) = <<>>
           /\ Sorted(newRows)
           /\ \A x \in Range(newRows) \cup Range(oldRows) \cup {table_row(id)} :
                 Count(newRows, x)
                     = Count(oldRows, x) + (IF x = table_row(id) THEN 1 ELSE 0)

C4_Witness ==
    /\ pc = "done"
    /\ id.code = "200"
    /\ \E k \in 1..Len(readlines(NewTable)) - 2 :
          /\ readlines(NewTable)[k] = ExistingRow(Indent8, "100", "A")
          /\ readlines(NewTable)[k + 1] = table_row(id)
          /\ readlines(NewTable)[k + 2] = ExistingRow(Indent8, "300", "C")
    /\ Count(readlines(OldTable), table_row(id)) = 0

\* The content is a block of export lines, an empty line and a block of
\* declarations, each line ended by a newline.
TwoBlocks(content) ==
    LET ls == splitlines(content)
        k == FirstLine(ls, 1, <<>>)
    IN  /\ content # <<>>
        /\ content[Len(content)] = NL
        /\ k > 1
        /\ ls[k] = <<>>
        /\ \A j \in 1..(k - 1) : Head(ls[j]) = "pub(crate) use"
        /\ \A j \in (k + 1)..Len(ls) :
               ls[j] # <<>> /\ Head(ls[j]) = "mod"

PatchedLines == splitlines(NewModRs)

AnchorAt == FirstLine(PatchedLines, 1, AnchorText)

BlockStart ==
    LET blanks == {j \in 1..(AnchorAt - 1) : strip(PatchedLines[j]) = <<>>}
    IN  IF blanks = {} THEN 1
        ELSE 1 + (CHOOSE j \in blanks : \A o \in blanks : o <= j)

IsTestCase(line) ==
    strip(line) # <<>> /\ Head(strip(line)) = "#[test_case(Rule::"

(* C6.  Stated as claimed: after the test-case step on a mod.rs with an    *)
(* anchor line, whose test-case lines before the anchor are sorted, the    *)
(* new line stands in the block before the first anchor, and no test-case  *)
(* line of that block that sorts after the new line stands before it.  The *)
(* code puts the new line last, whatever its text.                         *)
C6_NewCaseInOrder ==
    (pc = "exports" /\ HasLine(OldModRs, AnchorText)
        /\ Sorted(LinesWith(OldModRs, "#[test_case(Rule::")))
    => \E n \in BlockStart..(AnchorAt - 1) :
          /\ PatchedLines[n]
                 = test_case_line(get_indent(PatchedLines[AnchorAt]), id)
          /\ \A j \in BlockStart..(AnchorAt - 1) :
                 (IsTestCase(PatchedLines[j]) /\ j < n)
                 => StrLeq(PatchedLines[j], PatchedLines[n])

(* C7.  Stated as claimed: after the test-case step on a mod.rs with an    *)
(* anchor line, the lines of the file are the lines it had, each as it     *)
(* was, plus the one new line before the first anchor.  The code writes a  *)
(* blank line of its own for each blank line that follows a blank line,    *)
(* and an empty line for a line of blanks.                                 *)
C7_OtherLinesKept ==
    (pc = "exports" /\ HasLine(OldModRs, AnchorText))
    => /\ AnchorAt > 1
       /\ RemoveAt(PatchedLines, AnchorAt - 1) = splitlines(OldModRs)

(* C8.  Stated as claimed: in one invocation no file is read twice or      *)
(* written twice.  The code reads and writes the category's mod.rs in the  *)
(* test-case step and again in the exports step.                           *)
C8_EachFileOnce ==
    \A p \in Touched : Reads(p) <= 1 /\ Writes(p) <= 1

(* C8, as amended.  In one invocation the fixture is opened once for       *)
(* appending and neither read nor written, the rule's file is written once *)
(* and not read, the table of rules is read once and written once, and the *)
(* category's mod.rs is read twice and written twice, a read before each   *)
(* write; no other file is touched.  An invocation that ends early does no *)
(* more than that.                                                         *)
C8_ModRsTwiceOthersOnce ==
    /\ Touched \subseteq
           {fixture_path(id), mod_rs(id), stub_path(id), table_path}
    /\ Opens(fixture_path(id)) <= 1
    /\ Reads(fixture_path(id)) = 0 /\ Writes(fixture_path(id)) = 0
    /\ Reads(stub_path(id)) = 0 /\ Writes(stub_path(id)) <= 1
    /\ Reads(table_path) <= 1 /\ Writes(table_path) <= 1
    /\ Reads(mod_rs(id)) <= 2 /\ Writes(mod_rs(id)) <= 2
    /\ pc = "done"
       => /\ Opens(fixture_path(id)) = 1
          /\ Writes(stub_path(id)) = 1
          /\ Reads(table_path) = 1 /\ Writes(table_path) = 1
          /\ Reads(mod_rs(id)) = 2 /\ Writes(mod_rs(id)) = 2
          /\ SubSeq(log, 2, 5)
                 = <<Event("read", mod_rs(id)), Event("write", mod_rs(id)),
                     Event("read", mod_rs(id)), Event("write", mod_rs(id))>>

C8_Witness ==
    /\ pc = "done"
    /\ Reads(mod_rs(id)) = 2
    /\ Writes(mod_rs(id)) = 2
    /\ Reads(table_path) = 1

(* C9.  When a step fails, the invocation is over: the formatter is not    *)
(* run, no file is opened by a later step, and the tree is the one the     *)
(* steps before the failing one left, with what they wrote.                *)
C9_FailureStopsAndKeeps ==
    pc = "failed"
    => /\ \A k \in 1..Len(log) : log[k].op # "rustfmt"
       /\ failedAt \in {"fixture", "testcase", "dispatch", "rustfmt"}
       /\ failedAt = "fixture" => (log = <<>> /\ fs = start)
       /\ failedAt = "testcase"
          => /\ log = <<Event("open_append", fixture_path(id))>>
             /\ fs = TreeBeforeTestCase
       /\ failedAt = "dispatch"
          => /\ Writes(table_path) = 0
             /\ Writes(mod_rs(id)) = 2
             /\ Writes(stub_path(id)) = 1
             /\ fs = TreeBeforeTable
             /\ Content(fs, stub_path(id)) = StubText(id)
             /\ NewTable = OldTable
       /\ failedAt = "rustfmt"
          => /\ Writes(table_path) = 1
             /\ fs = Put(TreeBeforeTable, table_path,
                         TablePatch(OldTable, id).text)

C9_Witness ==
    /\ pc = "failed"
    /\ failedAt = "dispatch"
    /\ Exists(start, table_path)
    /\ ~HasLine(OldTable, category_marker(id))
    /\ fs # start
    /\ NewModRs # OldModRs

\* What the Path::new("...") of a test-case line names.
PathArgument(line) ==
    LET from == CHOOSE k \in 1..Len(line) : line[k] = ", Path::new(\""
        to == CHOOSE k \in 1..Len(line) : line[k] = "\"))]"
    IN  SubSeq(line, from + 1, to - 1)

(* C10.  Stated as claimed: after an invocation that ran to its end, the   *)
(* file the new test-case line names is the fixture the invocation opened. *)
(* The code names "<filestem>.py" and creates "<filestem>.f90".            *)
C10_CaseNamesFixture ==
    (pc = "done" /\ HasLine(OldModRs, AnchorText))
    => /\ AnchorAt > 1
       /\ IsTestCase(PatchedLines[AnchorAt - 1])
       /\ fixture_dir(id) \o PathArgument(PatchedLines[AnchorAt - 1])
              = log[1].path

=============================================================================
